---- MODULE Spec2Model ----
(***************************************************************************)
(* ign-py: conversion of images to dithered 8-bit PNGs with interleaved    *)
(* gradient noise.  The module models the two programs of the repository:  *)
(*   - the modular pipeline: processing.py -> image_converter.py, with     *)
(*     ign.py and colorspace_conversion.py;                                *)
(*   - the standalone script ign_converter.py (main, process_*, its own    *)
(*     convert_image and generate_ign_noise).                              *)
(* Real-valued arrays (numpy float32/float64) are modelled in fixed point: *)
(* an integer v stands for the real v / FP.  PIL's decoder, encoder,       *)
(* Gaussian blur, palette mapping and median cut are external              *)
(* collaborators, modelled by what the pipeline relies on.                 *)
(***************************************************************************)
EXTENDS Integers, Sequences, FiniteSets, TLC

(***************************************************************************)
(* Fixed-point arithmetic.                                                 *)
(***************************************************************************)
\* Pixel values and noise: an integer v stands for the real number v / FP.
FPH == 10 * 10 * 10

FP == FPH * FPH

\* Inside the colour space conversions an integer v stands for v / FQ.
FQH == 2 ^ 12

FQ == FQH * FQH

\* The three channels of a pixel, channel i computed by F(i).
Channels(F(_)) == <<F(1), F(2), F(3)>>

Abs(a) == IF a < 0 THEN 0 - a ELSE a

Sgn(a) == IF a < 0 THEN 0 - 1 ELSE 1

Min2(a, b) == IF a < b THEN a ELSE b

Max2(a, b) == IF a > b THEN a ELSE b

\* a * b / FQ for a, b >= 0, rounded down; the product is formed from the
\* halves of a and b so that no intermediate value leaves 32 bits.
MulQ(a, b) ==
    LET ah == a \div FQH
        al == a % FQH
        bh == b \div FQH
        bl == b % FQH
    IN  ah * bh + ((ah * bl + al * bh + ((al * bl) \div FQH)) \div FQH)

\* floor(a * b / c) for a, b >= 0 and c > 0, by Horner's rule over the bits
\* of b: the pair <<q, r>> keeps a * (bits seen) = q * c + r.
RECURSIVE MulDivQR(_, _, _)
MulDivQR(a, b, c) ==
    IF b = 0 THEN <<0, 0>>
    ELSE LET p == MulDivQR(a, b \div 2, c)
             t == 2 * p[2] + a * (b % 2)
         IN  <<2 * p[1] + (t \div c), t % c>>

MulDivPos(a, b, c) == MulDivQR(a, b, c)[1]

\* a * b / c for c > 0, rounded towards zero.
MulDiv(a, b, c) == Sgn(a) * Sgn(b) * MulDivPos(Abs(a), Abs(b), c)

\* The largest y in lo..hi with P(y), for a predicate that holds at lo and is
\* downward closed (bisection).
RECURSIVE Bisect(_, _, _)
Bisect(P(_), lo, hi) ==
    IF lo >= hi THEN lo
    ELSE LET mid == (lo + hi + 1) \div 2
         IN  IF P(mid) THEN Bisect(P, mid, hi) ELSE Bisect(P, lo, mid - 1)

(***************************************************************************)
(* image_converter.py / ign_converter.py: WINDOWS_SYSTEM_PALETTE, built at *)
(* module initialisation.  Python index i is position i + 1 here.          *)
(***************************************************************************)
FirstSystemColors ==
    << <<0, 0, 0>>, <<128, 0, 0>>, <<0, 128, 0>>, <<128, 128, 0>>,
       <<0, 0, 128>>, <<128, 0, 128>>, <<0, 128, 128>>, <<192, 192, 192>>,
       <<192, 220, 192>>, <<166, 202, 240>> >>

CubeLevels == 6

CubeStep == 51

GrayCount == 20

GrayBase == 8

GraySpan == 240

GrayDivisor == 19

\* for r in range(6): for g in range(6): for b in range(6):
\*     middle_colors.append((r * 51, g * 51, b * 51))
CubeColors ==
    [k \in 1..(CubeLevels * CubeLevels * CubeLevels) |->
        LET i == k - 1
            r == i \div (CubeLevels * CubeLevels)
            g == (i \div CubeLevels) % CubeLevels
            b == i % CubeLevels
        IN  <<r * CubeStep, g * CubeStep, b * CubeStep>>]

\* for i in range(20): gray = int(8 + (i * 240 / 19))
\* The grays counted from 1: gray = int(8 + ((i + 1) * 240 / 19)).
GrayColorsFromOne ==
    [k \in 1..GrayCount |->
        LET gray == GrayBase + ((k * GraySpan) \div GrayDivisor)
        IN  <<gray, gray, gray>>]

GrayColors ==
    [k \in 1..GrayCount |->
        LET gray == GrayBase + (((k - 1) * GraySpan) \div GrayDivisor)
        IN  <<gray, gray, gray>>]

middle_colors == CubeColors \o GrayColors

LastSystemColors ==
    << <<255, 251, 240>>, <<160, 160, 164>>, <<128, 128, 128>>, <<255, 0, 0>>,
       <<0, 255, 0>>, <<255, 255, 0>>, <<0, 0, 255>>, <<255, 0, 255>>,
       <<0, 255, 255>>, <<255, 255, 255>> >>

\* The list after the two extend() calls of module initialisation.
BuildSystemPalette == FirstSystemColors \o middle_colors \o LastSystemColors

(***************************************************************************)
(* ign.py: generate_ign_noise.                                             *)
(*   f     = 0.06711056 * (x + seed) / scale + 0.00583715 * (y + seed) / scale *)
(*   noise = frac(52.9829189 * frac(f))                                    *)
(* computed exactly over the rationals (in limbs, so that nothing leaves   *)
(* 32 bits) and cut to the resolution FP: IgnValue is floor(noise * FP).   *)
(***************************************************************************)
\* np.random.randint(0, 1000) draws from 0 .. RandHigh - 1.
RandLow == 0

RandHigh == 1000

\* <<hi, lo>> with 6711056 * X + 583715 * Y = hi * 10^8 + lo, 0 <= lo < 10^8.
IgnLinear(X, Y) ==
    LET a == 671 * X + 58 * Y
        b == 1056 * X + 3715 * Y
        a2 == a + (b \div 10000)
        b2 == b % 10000
    IN  <<a2 \div 10000, (a2 % 10000) * 10000 + b2>>

\* The numerator r of np.modf(f)[0] = r / (scale * 10^8).
IgnFracF(X, Y, scale) ==
    LET n == IgnLinear(X, Y)
    IN  (n[1] % scale) * 100000000 + n[2]

\* The base-1000 limbs <<d0, .., d6>> of 529829189 * r.
IgnProduct(r) ==
    LET r0 == r % 1000
        r1 == (r \div 1000) % 1000
        r2 == (r \div 1000000) % 1000
        r3 == r \div 1000000000
        m0 == 189
        m1 == 829
        m2 == 529
        c0 == r0 * m0
        c1 == r0 * m1 + r1 * m0 + (c0 \div 1000)
        c2 == r0 * m2 + r1 * m1 + r2 * m0 + (c1 \div 1000)
        c3 == r1 * m2 + r2 * m1 + r3 * m0 + (c2 \div 1000)
        c4 == r2 * m2 + r3 * m1 + (c3 \div 1000)
        c5 == r3 * m2 + (c4 \div 1000)
        c6 == c5 \div 1000
    IN  <<c0 % 1000, c1 % 1000, c2 % 1000, c3 % 1000, c4 % 1000, c5 % 1000, c6>>

\* floor(FP * frac(52.9829189 * r / (scale * 10^8))).
IgnFrac2(r, scale) ==
    LET d == IgnProduct(r)
        H == d[6] + 1000 * d[7]
    IN  ((H % scale) * 1000000 + d[5] * 1000 + d[4]) \div scale

\* The noise at pixel (x, y) for an effective (already drawn) seed.
IgnValue(x, y, scale, seed) == IgnFrac2(IgnFracF(x + seed, y + seed, scale), scale)

\* The field with the axes exchanged: width rows of height values.
IgnFieldTransposed(width, height, scale, seed) ==
    [row \in 1..width |-> [col \in 1..height |-> IgnValue(row - 1, col - 1, scale, seed)]]

\* The field generate_ign_noise returns for an effective seed: height rows of
\* width values (x = np.arange(width) is the column index, y the row index).
IgnField(width, height, scale, seed) ==
    [row \in 1..height |-> [col \in 1..width |-> IgnValue(col - 1, row - 1, scale, seed)]]

\* np.random.randint(low, high): an integer from low to high - 1.
\* A generator whose upper end is included (random.randint).
RandintInclusive(low, high) == low..high

Randint(low, high) == low..(high - 1)

\* if seed == -1: seed = np.random.randint(0, 1000): the seed the rest of
\* the function works with and the values drawn from the random generator.
EffectiveSeeds(seed) ==
    IF seed = 0 - 1
    THEN {[seed |-> s, drawn |-> <<s>>] : s \in Randint(RandLow, RandHigh)}
    ELSE {[seed |-> seed, drawn |-> <<>>]}

\* ign.py: the outcomes of generate_ign_noise(width, height, scale, seed).
generate_ign_noise(width, height, scale, seed) ==
    {[noise |-> IgnField(width, height, scale, e.seed), drawn |-> e.drawn] :
        e \in EffectiveSeeds(seed)}

\* ign_converter.py:66-92: the generator without a seed (x = np.arange(width)).
generate_ign_noise_unseeded(width, height, scale) ==
    {[noise |-> IgnField(width, height, scale, 0), drawn |-> <<>>]}

(***************************************************************************)
(* colorspace_conversion.py, one pixel at a time.  A pixel is a triple of  *)
(* pixel values (resolution FP); the intermediate values have resolution   *)
(* FQ.  np.power is computed by bisection on its inverse.                  *)
(***************************************************************************)
\* The largest y with y * y <= v (v < 81).
SqrtQ(v) == LET P(y) == MulQ(y, y) <= v IN Bisect(P, 0, 9 * FQ)

\* The largest y with y^3 <= v (v < 27).
CbrtQ(v) == LET P(y) == MulQ(MulQ(y, y), y) <= v IN Bisect(P, 0, 3 * FQ)

\* The largest y with y^5 <= v (v <= 1).
Root5Q(v) ==
    LET P(y) == LET y2 == MulQ(y, y) IN MulQ(MulQ(y2, y2), y) <= v
    IN  Bisect(P, 0, FQ)

\* np.power(u, 2.4) = u^2 * (u^2)^(1/5), for 0 <= u <= 1.
Pow24(u) == LET w == MulQ(u, u) IN MulQ(w, Root5Q(w))

\* np.power(v, 1/2.4) = (v^(1/12))^5, for 0 <= v < 81.
PowInv24(v) ==
    LET c == CbrtQ(SqrtQ(SqrtQ(v)))
        c2 == MulQ(c, c)
    IN  MulQ(MulQ(c2, c2), c)

\* num / den as a value of resolution FQ, rounded down.
Q(num, den) == MulDiv(num, FQ, den)

\* sRGB -> linear: ((c + 0.055) / 1.055)^2.4 above 0.04045, else c / 12.92.
SrgbToLinear(c) ==
    IF c > Q(4045, 100000)
    THEN Pow24(MulDiv(c + Q(55, 1000), 1000, 1055))
    ELSE MulDiv(c, 100, 1292)

\* m = [[0.4124564, 0.3575761, 0.1804375], [0.2126729, 0.7151522, 0.0721750],
\*      [0.0193339, 0.1191920, 0.9503041]]
RgbToXyzMatrix ==
    << <<4124564, 3575761, 1804375>>,
       <<2126729, 7151522,  721750>>,
       << 193339, 1191920, 9503041>> >>

\* m_inv = [[3.2404542, -1.5371385, -0.4985314], [-0.9692660, 1.8760108, 0.0415560],
\*          [0.0556434, -0.2040259, 1.0572252]]
\* np.dot(xyz, m_inv) without the transposition.
XyzToRgbUntransposed ==
    << <<32404542, 0 - 9692660,    556434>>,
       <<0 - 15371385, 18760108, 0 - 2040259>>,
       <<0 - 4985314,    415560, 10572252>> >>

XyzToRgbMatrix ==
    << <<32404542, 0 - 15371385, 0 - 4985314>>,
       <<0 - 9692660, 18760108,    415560>>,
       <<   556434, 0 - 2040259, 10572252>> >>

\* The matrices' entries are written over 10^7.
MatrixDen == 10000 * 1000

\* np.dot(v, m.T) for one pixel.
MatVec(m, v) ==
    Channels(LAMBDA i : MulDiv(v[1], m[i][1], MatrixDen) + MulDiv(v[2], m[i][2], MatrixDen)
                    + MulDiv(v[3], m[i][3], MatrixDen))

\* D65 white point (0.95047, 1.00000, 1.08883), written over 10^5.
WhitePoint == <<95047, 100000, 108883>>

WhiteDen == 100 * 1000

\* XYZ -> LAB nonlinearity: t^(1/3) above 0.008856, else 7.787 * t + 16/116.
LabF(t) ==
    IF t > Q(8856, 1000000)
    THEN CbrtQ(t)
    ELSE MulDiv(t, 7787, 1000) + Q(16, 116)

\* rgb_to_lab(rgb)[y, x] for rgb[y, x] = p.  L = 116 * f - 16 is formed as
\* 116 * (f - 16/116): in the code's arithmetic 116 * (16/116) is 16.0, so
\* that black, whose f is 16/116 in every channel, has L = a = b = 0.0.
RgbToLabPixel(p) ==
    LET n == Channels(LAMBDA i : MulDiv(p[i], FQ, 255 * FP))
        lin == Channels(LAMBDA i : SrgbToLinear(n[i]))
        xyz == MatVec(RgbToXyzMatrix, lin)
        w == Channels(LAMBDA i : MulDiv(xyz[i], WhiteDen, WhitePoint[i]))
        f == Channels(LAMBDA i : LabF(w[i]))
    IN  <<MulDiv(f[2] - Q(16, 116), 116 * FP, FQ),
          MulDiv(f[1] - f[2], 500 * FP, FQ),
          MulDiv(f[2] - f[3], 200 * FP, FQ)>>

\* LAB -> XYZ nonlinearity: t^3 above 0.2068966, else (t - 16/116) / 7.787.
LabFInv(t) ==
    IF t > Q(2068966, 10000000)
    THEN MulQ(MulQ(t, t), t)
    ELSE MulDiv(t - Q(16, 116), 1000, 7787)

\* linear -> sRGB: 1.055 * v^(1/2.4) - 0.055 above 0.0031308, else 12.92 * v.
LinearToSrgb(v) ==
    IF v > Q(31308, 10000000)
    THEN MulDiv(PowInv24(v), 1055, 1000) - Q(55, 1000)
    ELSE MulDiv(v, 1292, 100)

\* lab_to_rgb(lab)[y, x] for lab[y, x] = q: np.clip(rgb * 255, 0, 255) is
\* computed as 255 * clip(rgb, 0, 1).
LabToRgbPixel(q) ==
    LET fy == MulDiv(q[1] + 16 * FP, FQ, 116 * FP)
        fx == MulDiv(q[2], FQ, 500 * FP) + fy
        fz == fy - MulDiv(q[3], FQ, 200 * FP)
        t == <<fx, fy, fz>>
        xyz == Channels(LAMBDA i : MulDiv(LabFInv(t[i]), WhitePoint[i], WhiteDen))
        lin == MatVec(XyzToRgbMatrix, xyz)
        rgb == Channels(LAMBDA i : LinearToSrgb(lin[i]))
    IN  Channels(LAMBDA i : MulDiv(Max2(0, Min2(FQ, rgb[i])), 255 * FP, FQ))

\* An array is height rows of width pixels.
MapPixels(F(_), a) == [row \in DOMAIN a |-> [col \in DOMAIN a[row] |-> F(a[row][col])]]

(***************************************************************************)
(* Paths and the file system the programs run on.                          *)
(*   A path is a directory and a file name; a directory's own path has the *)
(*   empty name.  A name keeps its stem as a sequence of parts, so that    *)
(*   f"{stem}_ignpy.png" and f"{md5}.png" can be formed.                   *)
(***************************************************************************)
NoName == [stem |-> <<>>, digest |-> <<>>, suffix |-> ""]

FileName(stem, suffix) == [stem |-> stem, digest |-> <<>>, suffix |-> suffix]

DirPath(d) == [dir |-> d, file |-> NoName]

FilePath(d, stem, suffix) == [dir |-> d, file |-> FileName(stem, suffix)]

\* The value None, where a path is expected.
NonePath == [dir |-> "", file |-> NoName]

\* Path(p) / name: below a directory; below a regular file nothing exists.
JoinPath(p, name) ==
    IF p.file = NoName THEN [dir |-> p.dir, file |-> name]
    ELSE [dir |-> "<not a directory>", file |-> name]

\* Path.parent
Parent(p) == IF p.file = NoName THEN DirPath("") ELSE DirPath(p.dir)

\* hashlib.md5(b).hexdigest(): a digest stands for the bytes it was made of
\* (no collisions).
Md5Name(bytes) == [stem |-> <<>>, digest |-> bytes, suffix |-> ".png"]

\* f"{input_file.stem}_ignpy.png"
IgnpyName(input) == FileName(input.file.stem \o <<"_ignpy">>, ".png")

\* A decoded image: width, height and height rows of width pixels.
Image(mode, w, h, px) == [kind |-> "image", mode |-> mode, w |-> w, h |-> h, px |-> px]

Corrupt == [kind |-> "corrupt", mode |-> "", w |-> 0, h |-> 0, px |-> <<>>]

\* The files of the input directories.  "in": two images that decode (2 x 1
\* RGB and 1 x 2 RGBA), a file that does not decode and a file of an
\* unsupported type.  "ok": a colour image, a uniform grey image and a black
\* image.
FileA == FilePath("in", <<"a">>, ".png")

FileB == FilePath("in", <<"b">>, ".jpg")

FileC == FilePath("in", <<"c">>, ".gif")

FileU == FilePath("ok", <<"u">>, ".bmp")

FileNotes == FilePath("in", <<"notes">>, ".txt")

FileOk == FilePath("ok", <<"a">>, ".png")

FileK == FilePath("ok", <<"k">>, ".png")

FileMissing == FilePath("in", <<"missing">>, ".png")

ImageA == Image("RGB", 2, 1, << << <<10, 128, 250>>, <<200, 100, 50>> >> >>)

ImageC == Image("RGBA", 1, 2, << << <<255, 0, 0, 128>> >>, << <<12, 40, 255, 255>> >> >>)

ImageU == Image("L", 1, 1, << << <<128>> >> >>)

ImageK == Image("RGB", 2, 1, << << <<0, 0, 0>>, <<0, 0, 0>> >> >>)

Files == {FileA, FileB, FileC, FileU, FileNotes, FileOk, FileK}

Content(path) ==
    CASE path = FileA -> ImageA
      [] path = FileB -> Corrupt
      [] path = FileC -> ImageC
      [] path = FileU -> ImageU
      [] path = FileOk -> ImageA
      [] path = FileK -> ImageK
      [] OTHER -> Corrupt

\* The directories that exist before a run.
Dirs == {"in", "ok", "empty"}

\* Path.exists(), Path.is_file(), Path.is_dir() for the paths of the model.
Exists(p, made) == p \in Files \/ (p.file = NoName /\ p.dir \in Dirs \cup made)

IsFile(p) == p \in Files

IsDir(p, made) == p.file = NoName /\ p.dir \in Dirs \cup made

\* image_converter.py:14, ign_converter.py:17
SUPPORTED_EXTENSIONS == {".jpg", ".jpeg", ".png", ".webp", ".bmp", ".tiff", ".tif", ".gif"}

\* The order of Path objects: by directory, then by name (the names of the
\* model differ in their first letter).
NameRank(p) ==
    CASE p.file.stem = <<"a">> -> 1
      [] p.file.stem = <<"b">> -> 2
      [] p.file.stem = <<"c">> -> 3
      [] p.file.stem = <<"k">> -> 4
      [] p.file.stem = <<"notes">> -> 5
      [] p.file.stem = <<"u">> -> 6
      [] OTHER -> 7

\* sorted(paths) for a sequence of paths of one directory (insertion sort;
\* equal paths stay next to each other).
RECURSIVE InsertSorted(_, _)
InsertSorted(p, sq) ==
    IF sq = <<>> THEN <<p>>
    ELSE IF NameRank(p) <= NameRank(Head(sq)) THEN <<p>> \o sq
    ELSE <<Head(sq)>> \o InsertSorted(p, Tail(sq))

RECURSIVE Sorted(_)
Sorted(sq) == IF sq = <<>> THEN <<>> ELSE InsertSorted(Head(sq), Sorted(Tail(sq)))

\* A set as a sequence, in some order.
RECURSIVE SetToSeq(_)
SetToSeq(S) ==
    IF S = {} THEN <<>>
    ELSE LET x == CHOOSE y \in S : TRUE IN <<x>> \o SetToSeq(S \ {x})

\* input_path.glob(f"*{ext}") plus input_path.glob(f"*{ext.upper()}") over all
\* supported extensions: the names of the model are lower case, so that on a
\* file system whose matching ignores case every file is found twice.
Glob(dir, ignoreCase) ==
    LET found == SetToSeq({f \in Files : f.dir = dir /\ f.file.suffix \in SUPPORTED_EXTENSIONS})
    IN  IF ignoreCase THEN found \o found ELSE found

(***************************************************************************)
(* The image library (PIL) and numpy, as far as the pipeline uses them.    *)
(***************************************************************************)
\* An RGB image in memory.
Rgb(w, h, px) == [w |-> w, h |-> h, px |-> px]

NoRgb == [w |-> 0, h |-> 0, px |-> <<>>]

\* img.convert('RGB') for a greyscale image.
GreyToRgb(px) == MapPixels(LAMBDA p : <<p[1], p[1], p[1]>>, px)

\* background.paste(img, mask=img.split()[3]) on a white background.
OverWhite(px) ==
    MapPixels(LAMBDA p : Channels(LAMBDA i : (p[i] * p[4] + 255 * (255 - p[4]) + 127) \div 255), px)

\* Image.open(input_path) and the conversions of lines 86-93: the RGB image
\* the pipeline works on (the file is known to decode).
Decode(c) ==
    CASE c.mode = "RGB" -> Rgb(c.w, c.h, c.px)
      [] c.mode = "RGBA" -> Rgb(c.w, c.h, OverWhite(c.px))
      [] OTHER -> Rgb(c.w, c.h, GreyToRgb(c.px))

\* img.filter(ImageFilter.GaussianBlur(radius)): every pixel becomes the
\* mean of its 3 x 3 neighbourhood, the edges repeated.  The size is kept.
GaussianBlur(img) ==
    LET at(r, c) == img.px[Max2(1, Min2(img.h, r))][Max2(1, Min2(img.w, c))]
        mean(r, c, i) ==
            (at(r - 1, c - 1)[i] + at(r - 1, c)[i] + at(r - 1, c + 1)[i]
             + at(r, c - 1)[i] + at(r, c)[i] + at(r, c + 1)[i]
             + at(r + 1, c - 1)[i] + at(r + 1, c)[i] + at(r + 1, c + 1)[i] + 4) \div 9
    IN  Rgb(img.w, img.h,
            [r \in 1..img.h |-> [c \in 1..img.w |-> Channels(LAMBDA i : mean(r, c, i))]])

\* np.array(img, dtype=np.float32)
ToFloat(px) == MapPixels(LAMBDA p : Channels(LAMBDA i : p[i] * FP), px)

\* A float array: after a division of zero by zero every element is NaN.
Arr(a) == [nan |-> FALSE, a |-> a]

NanArr(a) == [nan |-> TRUE, a |-> MapPixels(LAMBDA p : <<0, 0, 0>>, a)]

NoArr == [nan |-> FALSE, a |-> <<>>]

\* All values of an array.
Values(a) == {a[r][c][i] : r \in DOMAIN a, c \in DOMAIN a[1], i \in 1..3}

SetMin(S) == CHOOSE x \in S : \A y \in S : x <= y

SetMax(S) == CHOOSE x \in S : \A y \in S : x >= y

\* The normalisation with min and max taken for each channel on its own.
NormalizePerChannel(arr) ==
    LET lo(i) == SetMin({arr.a[r][c][i] : r \in DOMAIN arr.a, c \in DOMAIN arr.a[1]})
        hi(i) == SetMax({arr.a[r][c][i] : r \in DOMAIN arr.a, c \in DOMAIN arr.a[1]})
    IN  IF arr.nan \/ \E i \in 1..3 : lo(i) = hi(i) THEN NanArr(arr.a)
        ELSE Arr(MapPixels(LAMBDA p : Channels(LAMBDA i :
                     MulDiv(p[i] - lo(i), 255 * FP, hi(i) - lo(i))), arr.a))

\* (img_array - img_array_min) / (img_array_max - img_array_min) * 255
NormalizeArr(arr) ==
    LET lo == SetMin(Values(arr.a))
        hi == SetMax(Values(arr.a))
    IN  IF arr.nan \/ lo = hi THEN NanArr(arr.a)
        ELSE Arr(MapPixels(LAMBDA p : Channels(LAMBDA i : MulDiv(p[i] - lo, 255 * FP, hi - lo)),
                           arr.a))

\* A strength is a fraction num / den; strength * 0.3 for the second pass.
Strength(num, den) == [num |-> num, den |-> den]

SecondStrength(s) == Strength(3 * s.num, 10 * s.den)

\* np.clip(a, 0, 255) for one value.
Clip255(a) == Max2(0, Min2(255 * FP, a))

\* The dither without the strength factor: (noise - 0.5) * 2 * 255.
DitherArrFullStrength(arr, noise, s) ==
    IF arr.nan THEN arr
    ELSE Arr([r \in DOMAIN arr.a |-> [c \in DOMAIN arr.a[r] |-> Channels(LAMBDA i :
             Clip255(arr.a[r][c][i] + (2 * noise[r][c] - FP) * 255))]])

\* np.clip(img_array + (noise - 0.5) * 2 * strength * 255, 0, 255), the noise
\* of a pixel added to its three channels (np.expand_dims, np.tile).
DitherArr(arr, noise, s) ==
    IF arr.nan THEN arr
    ELSE Arr([r \in DOMAIN arr.a |-> [c \in DOMAIN arr.a[r] |-> Channels(LAMBDA i :
             Clip255(arr.a[r][c][i] + (((2 * noise[r][c] - FP) * 255 * s.num) \div s.den)))]])

\* rgb_to_lab and lab_to_rgb on arrays; NaN stays NaN.
rgb_to_lab(arr) == IF arr.nan THEN arr ELSE Arr(MapPixels(RgbToLabPixel, arr.a))

lab_to_rgb(arr) == IF arr.nan THEN arr ELSE Arr(MapPixels(LabToRgbPixel, arr.a))

\* The values astype(np.uint8) may give for NaN: the conversion is undefined.
NanCast == {0, 255}

\* np.floor(a).astype(np.uint8) for an array clipped to [0, 255].
Truncate(arr, nanValue) ==
    IF arr.nan THEN MapPixels(LAMBDA p : <<nanValue, nanValue, nanValue>>, arr.a)
    ELSE MapPixels(LAMBDA p : Channels(LAMBDA i : p[i] \div FP), arr.a)

\* The squared distance of two colours.
Dist2(p, q) ==
    (p[1] - q[1]) * (p[1] - q[1]) + (p[2] - q[2]) * (p[2] - q[2]) + (p[3] - q[3]) * (p[3] - q[3])

\* The position of the least of d[lo..hi], the lowest position among equals.
RECURSIVE ArgMin(_, _, _)
ArgMin(d, lo, hi) ==
    IF lo = hi THEN lo
    ELSE LET mid == (lo + hi) \div 2
             first == ArgMin(d, lo, mid)
             second == ArgMin(d, mid + 1, hi)
         IN  IF d[second] < d[first] THEN second ELSE first

\* The position of the palette entry nearest to p.
NearestIndex(pal, p) == ArgMin([k \in 1..Len(pal) |-> Dist2(pal[k], p)], 1, Len(pal))

\* result_img.quantize(palette=system_palette_img, dither=Image.NONE)
\*           .convert('RGB')
QuantizeToPalette(px, pal) == MapPixels(LAMBDA p : pal[NearestIndex(pal, p)], px)

\* The distinct colours of an image.
Colours(px) == {px[r][c] : r \in DOMAIN px, c \in DOMAIN px[1]}

\* result_img.quantize(colors=256, method=Image.MEDIANCUT, dither=Image.NONE)
\*           .convert('RGB'): an image of at most `colors` colours keeps them;
\* a richer one is mapped to `colors` of its own colours.
MedianCut(px, colors) ==
    IF Cardinality(Colours(px)) <= colors THEN px
    ELSE QuantizeToPalette(px, SubSeq(SetToSeq(Colours(px)), 1, colors))

MedianCutColors == 256

\* result_img.tobytes(): the channel values in row-major order.
RECURSIVE Flatten(_)
Flatten(sq) == IF sq = <<>> THEN <<>> ELSE Head(sq) \o Flatten(Tail(sq))

ToBytes(px) == Flatten(Flatten(px))

(***************************************************************************)
(* The state.                                                              *)
(***************************************************************************)
VARIABLES
    WINDOWS_SYSTEM_PALETTE, \* the module-level list
    pc,             \* where the running program stands
    impl,           \* "modular" (processing.py, image_converter.py) or "standalone"
    args,           \* the arguments of the running entry point
    cv,             \* convert_image: its parameters and locals
    trace,          \* the stages the running convert_image has entered
    failed_at,      \* the stage whose exception convert_image caught, or ""
    ret,            \* what the last convert_image returned
    pd,             \* process_directory: image_files, loop index, counters
    result,         \* what the entry point returned or raised
    created,        \* the directories made by mkdir in this run
    encoder_calls,  \* the paths and pixels handed to result_img.save
    reported,       \* the error messages printed in this run
    noise_calls,    \* the calls of generate_ign_noise in the running conversion
    reducer_calls,  \* the calls of the median cut reducer in this run
    t_pc, t_in, t_mem, t_out   \* a function under test: position, input,
                               \* the caller's array, results

progVars == <<pc, impl, args, cv, trace, failed_at, ret, pd, result, created,
              encoder_calls, reported, noise_calls, reducer_calls>>

testVars == <<t_pc, t_in, t_mem, t_out>>

vars == <<WINDOWS_SYSTEM_PALETTE, progVars, testVars>>

(***************************************************************************)
(* The inputs of the model.                                                *)
(***************************************************************************)
S0 == Strength(0, 1)

S200 == Strength(1, 200)

S10 == Strength(1, 10)

SNeg == Strength(0 - 1, 10)

SBig == Strength(11, 10)

\* The arguments of the modular entry points.
Config(scale, s, blur, pal, norm, preblur, seed, twopass, cs, hash) ==
    [noise_scale |-> scale, strength |-> s, blur_radius |-> blur, palette_mode |-> pal,
     normalize |-> norm, preblur |-> preblur, seed |-> seed, twopass |-> twopass,
     colorspace |-> cs, use_hash |-> hash]

\* Fixed seeds: every combination of the stage flags.
FixedSeedConfigs ==
    {Config(n[1], n[2], blur, pal, norm, preblur, n[3], twopass, cs, hash) :
        n \in {<<1, S0, 0>>, <<3, S10, 7>>},
        blur \in {0, 2}, pal \in {"adaptive", "system"}, norm \in BOOLEAN,
        preblur \in {0, 1}, twopass \in BOOLEAN, cs \in {"rgb", "lab"}, hash \in BOOLEAN}

\* Strength 0 with every other stage off, over noise scales and seeds.
ZeroStrengthConfigs ==
    {Config(scale, S0, 0, "adaptive", FALSE, 0, seed, twopass, "rgb", FALSE) :
        scale \in {1, 2, 3}, seed \in {0, 7, 42}, twopass \in BOOLEAN}

\* The seeds from -1 to the largest, with the second pass.
SeedRangeConfigs ==
    {Config(1, S10, 0, "adaptive", FALSE, 0, seed, TRUE, "rgb", FALSE) : seed \in {0 - 1, 1, 999, 1000}}

\* LAB with and without normalisation, for the black image.
LabConfigs ==
    {c \in FixedSeedConfigs :
        c.colorspace = "lab" /\ c.preblur = 0 /\ c.blur_radius = 0 /\ ~c.use_hash}

\* seed = -1: the 1000 draws, for the plain pipeline.
RandomSeedConfigs ==
    {Config(2, s, 0, "adaptive", FALSE, 0, 0 - 1, twopass, "rgb", FALSE) :
        s \in {S0, S200}, twopass \in BOOLEAN}

NoCfg == Config(0, S0, 0, "", FALSE, 0, 0, FALSE, "", FALSE)

\* The arguments of an entry point (None is NonePath): fn is
\* "process_single_image" or "process_directory" (processing.py) or "main"
\* (ign_converter.py, whose command line has no preblur, seed, twopass or
\* colorspace option).
Args(fn, file, dir, out, cfg) ==
    [fn |-> fn, input_file |-> file, input_dir |-> dir, output |-> out, cfg |-> cfg]

NoArgs == Args("", NonePath, NonePath, NonePath, NoCfg)

MainConfig(scale, s, blur, hash, pal, norm) ==
    Config(scale, s, blur, pal, norm, 0, 0, FALSE, "rgb", hash)

\* Well-formed command lines for one file: every combination of the options.
ValidMainArgs ==
    {Args("main", file, NonePath, out, MainConfig(n[1], n[2], blur, hash, pal, norm)) :
        file \in {FileA, FileB, FileC, FileU}, out \in {NonePath, DirPath("out")},
        n \in {<<1, S0>>, <<3, S10>>}, blur \in {0, 2}, hash \in BOOLEAN,
        pal \in {"adaptive", "system"}, norm \in BOOLEAN}

\* Well-formed command lines for a directory.
ValidBatchMainArgs ==
    {Args("main", NonePath, dir, out, MainConfig(1, S10, blur, hash, pal, norm)) :
        dir \in {DirPath("in"), DirPath("ok")}, out \in {NonePath, DirPath("out")},
        blur \in {0, 2}, hash \in BOOLEAN, pal \in {"adaptive", "system"}, norm \in BOOLEAN}

\* Command lines that vary what main and process_directory validate.
EdgeMainArgs ==
    {Args("main", file, dir, out, MainConfig(1, s, blur, FALSE, "adaptive", FALSE)) :
        file \in {NonePath, FileA, FileMissing},
        dir \in {NonePath, DirPath("in"), DirPath("empty"), DirPath("missing"), FileA},
        out \in {NonePath, DirPath("out")}, s \in {S0, S10, SNeg, SBig},
        blur \in {0, 16, 0 - 1, 17}}

MainArgs == ValidMainArgs \cup ValidBatchMainArgs \cup EdgeMainArgs

PlainConfig == Config(1, S0, 0, "adaptive", FALSE, 0, 0, FALSE, "rgb", FALSE)

\* The calls of processing.process_single_image.
SingleArgs ==
    {Args("process_single_image", file, NonePath, NonePath, cfg) :
        file \in {FileA, FileC, FileU}, cfg \in FixedSeedConfigs}
    \cup {Args("process_single_image", file, NonePath, DirPath("out"), cfg) :
             file \in {FileA, FileB},
             cfg \in {c \in FixedSeedConfigs : c.preblur = 0 /\ c.blur_radius = 0 /\ ~c.normalize}}
    \cup {Args("process_single_image", FileA, NonePath, out, cfg) :
             out \in {NonePath, DirPath("out")}, cfg \in ZeroStrengthConfigs \cup RandomSeedConfigs}
    \cup {Args("process_single_image", FileA, NonePath, NonePath, cfg) : cfg \in SeedRangeConfigs}
    \cup {Args("process_single_image", FileK, NonePath, NonePath, cfg) : cfg \in LabConfigs}
    \cup {Args("process_single_image", file, NonePath, NonePath, PlainConfig) :
             file \in {FileB, FileMissing, DirPath("in")}}

\* The calls of processing.process_directory.
BatchArgs ==
    {Args("process_directory", NonePath, dir, out, Config(1, s, 0, pal, FALSE, 0, 0, FALSE, "rgb", hash)) :
        dir \in {DirPath("in"), DirPath("ok"), DirPath("empty"), DirPath("missing"), FileA},
        out \in {NonePath, DirPath("out")}, s \in {S0, S10},
        pal \in {"adaptive", "system"}, hash \in BOOLEAN}

(***************************************************************************)
(* convert_image: the frame of a call and the order of its stages.         *)
(***************************************************************************)
\* The parameters as bound by a call, and the locals before the first stage.
Frame(caller, input_path, output_path, scale, s, blur, pal, norm, preblur, seed, twopass, cs, hash) ==
    [caller |-> caller, input_path |-> input_path, output_path |-> output_path,
     noise_scale |-> scale, strength |-> s, blur_radius |-> blur, palette_mode |-> pal,
     normalize |-> norm, preblur |-> preblur, seed |-> seed, twopass |-> twopass,
     colorspace |-> cs, use_hash |-> hash,
     img |-> NoRgb, arr |-> NoArr, noise |-> <<>>, result_img |-> NoRgb,
     final_output |-> NonePath]

NoFrame ==
    Frame("", NonePath, NonePath, 0, S0, 0, "", FALSE, 0, 0, FALSE, "", FALSE)

\* processing.py:34-35 and :86-87: all twelve arguments, in the order of the
\* parameters of image_converter.convert_image.
CallModular(caller, input_path, output_path, c) ==
    Frame(caller, input_path, output_path, c.noise_scale, c.strength, c.blur_radius,
          c.palette_mode, c.normalize, c.preblur, c.seed, c.twopass, c.colorspace,
          c.use_hash)

\* ign_converter.py:232: seven positional arguments for the eight parameters
\* (..., palette_mode, normalize, use_hash=False): use_hash lands in normalize.
CallStandaloneSingle(caller, input_path, output_path, c) ==
    Frame(caller, input_path, output_path, c.noise_scale, c.strength, c.blur_radius,
          c.palette_mode, c.use_hash, 0, 0, FALSE, "rgb", FALSE)

\* ign_converter.py:281: all eight arguments.
CallStandaloneBatch(caller, input_path, output_path, c) ==
    Frame(caller, input_path, output_path, c.noise_scale, c.strength, c.blur_radius,
          c.palette_mode, c.normalize, 0, 0, FALSE, "rgb", c.use_hash)

\* Normalize ahead of the conversion to LAB.
NormalizeFirstStages ==
    <<"Load", "PreBlur", "Normalize", "ColorspaceConvert", "GenerateNoise", "Dither",
      "ConvertBack", "Truncate", "PaletteQuantize", "SecondPass", "PostBlur",
      "NameByHash", "Encode">>

\* The else branch of ign_converter.py:170-172 kept in the pipeline.
StagesWithMedianCut ==
    <<"Load", "PreBlur", "ColorspaceConvert", "Normalize", "GenerateNoise", "Dither",
      "ConvertBack", "Truncate", "PaletteQuantize", "MedianCut", "SecondPass", "PostBlur",
      "NameByHash", "Encode">>

\* image_converter.py:81-198, in program order.
ModularStages ==
    <<"Load", "PreBlur", "ColorspaceConvert", "Normalize", "GenerateNoise", "Dither",
      "ConvertBack", "Truncate", "PaletteQuantize", "SecondPass", "PostBlur",
      "NameByHash", "Encode">>

\* ign_converter.py:108-197, in program order.
StandaloneStages ==
    <<"Load", "GenerateNoise", "Normalize", "Dither", "Truncate", "PaletteQuantize",
      "MedianCut", "PostBlur", "NameByHash", "Encode">>

Stages(im) == IF im = "modular" THEN ModularStages ELSE StandaloneStages

\* The condition under which the code enters a stage.
StageOn(c, st) ==
    CASE st = "PreBlur" -> c.preblur > 0
      [] st = "ColorspaceConvert" -> c.colorspace = "lab"
      [] st = "Normalize" -> c.normalize
      [] st = "ConvertBack" -> c.colorspace = "lab"
      [] st = "PaletteQuantize" -> c.palette_mode = "system"
      [] st = "MedianCut" -> c.palette_mode # "system"
      [] st = "SecondPass" -> c.twopass
      [] st = "PostBlur" -> c.blur_radius > 0
      [] st = "NameByHash" -> c.use_hash
      [] OTHER -> TRUE

IndexOf(sq, x) == CHOOSE i \in 1..Len(sq) : sq[i] = x

\* The first stage from position k on that the configuration enters.
RECURSIVE FirstOn(_, _, _)
FirstOn(c, sq, k) ==
    IF k > Len(sq) THEN c.caller
    ELSE IF StageOn(c, sq[k]) THEN sq[k] ELSE FirstOn(c, sq, k + 1)

\* Where control goes when stage st has run.
NextPc(c, im, st) == FirstOn(c, Stages(im), IndexOf(Stages(im), st) + 1)

(***************************************************************************)
(* convert_image, stage by stage.  An exception raised in a stage is       *)
(* caught by the except clause, which prints and returns (False, None).    *)
(***************************************************************************)
Failure == [success |-> FALSE, final_output |-> NonePath]

NoRet == [success |-> FALSE, final_output |-> NonePath]

\* What no stage of convert_image changes.
Outside == <<WINDOWS_SYSTEM_PALETTE, impl, args, pd, result, created, testVars>>

\* Stage st runs to its end and leaves the frame newcv.
Run(st, newcv) ==
    /\ trace' = Append(trace, st)
    /\ cv' = newcv
    /\ pc' = NextPc(cv, impl, st)
    /\ UNCHANGED <<failed_at, ret, reported>>

\* The exception of stage st recorded, the stages after it run all the same.
CaughtAndContinued(st) ==
    /\ trace' = Append(trace, st)
    /\ cv' = cv
    /\ pc' = NextPc(cv, impl, st)
    /\ failed_at' = st
    /\ ret' = Failure
    /\ reported' = Append(reported, "Error converting")

\* Stage st raises: except Exception as e: print(...); return False, None
Caught(st) ==
    /\ trace' = Append(trace, st)
    /\ cv' = cv
    /\ pc' = cv.caller
    /\ failed_at' = st
    /\ ret' = Failure
    /\ reported' = Append(reported, "Error converting")

\* Image.open, convert('RGB'), the compositing of RGBA on white, and
\* np.array(img, dtype=np.float32) when no pre-blur follows.
Load ==
    /\ pc = "Load"
    /\ IF IsFile(cv.input_path) /\ Content(cv.input_path).kind = "image"
       THEN LET img == Decode(Content(cv.input_path))
            IN  Run("Load", [cv EXCEPT !.img = img, !.arr = Arr(ToFloat(img.px))])
       ELSE Caught("Load")
    /\ UNCHANGED <<noise_calls, encoder_calls, reducer_calls, Outside>>

\* if preblur > 0: img = img.filter(ImageFilter.GaussianBlur(radius=preblur))
PreBlur ==
    /\ pc = "PreBlur"
    /\ LET img == GaussianBlur(cv.img)
       IN  Run("PreBlur", [cv EXCEPT !.img = img, !.arr = Arr(ToFloat(img.px))])
    /\ UNCHANGED <<noise_calls, encoder_calls, reducer_calls, Outside>>

\* if colorspace == 'lab': img_array = rgb_to_lab(img_array)
ColorspaceConvert ==
    /\ pc = "ColorspaceConvert"
    /\ Run("ColorspaceConvert", [cv EXCEPT !.arr = rgb_to_lab(cv.arr)])
    /\ UNCHANGED <<noise_calls, encoder_calls, reducer_calls, Outside>>

\* if normalize: ...
Normalize ==
    /\ pc = "Normalize"
    /\ Run("Normalize", [cv EXCEPT !.arr = NormalizeArr(cv.arr)])
    /\ UNCHANGED <<noise_calls, encoder_calls, reducer_calls, Outside>>

\* The record of one call of generate_ign_noise: its arguments and how many
\* values it drew from the random generator.
NoiseCall(width, height, scale, seed, drawn) ==
    [width |-> width, height |-> height, scale |-> scale, seed |-> seed,
     draws |-> Len(drawn)]

\* noise = generate_ign_noise(img.width, img.height, noise_scale, seed); in
\* ign_converter.py generate_ign_noise(img.width, img.height, noise_scale).
GenerateNoise ==
    /\ pc = "GenerateNoise"
    /\ \E o \in (IF impl = "modular"
                 THEN generate_ign_noise(cv.img.w, cv.img.h, cv.noise_scale, cv.seed)
                 ELSE generate_ign_noise_unseeded(cv.img.w, cv.img.h, cv.noise_scale)) :
          /\ Run("GenerateNoise", [cv EXCEPT !.noise = o.noise])
          /\ noise_calls' = Append(noise_calls,
                NoiseCall(cv.img.w, cv.img.h, cv.noise_scale, cv.seed, o.drawn))
    /\ UNCHANGED <<encoder_calls, reducer_calls, Outside>>

\* dithered = np.clip(img_array + noise_scaled, 0, 255); the noise is not
\* read again and is dropped from the frame.
Dither ==
    /\ pc = "Dither"
    /\ Run("Dither", [cv EXCEPT !.arr = DitherArr(cv.arr, cv.noise, cv.strength),
                                !.noise = <<>>])
    /\ UNCHANGED <<noise_calls, encoder_calls, reducer_calls, Outside>>

\* if colorspace == 'lab': dithered = lab_to_rgb(dithered)
ConvertBack ==
    /\ pc = "ConvertBack"
    /\ Run("ConvertBack", [cv EXCEPT !.arr = lab_to_rgb(cv.arr)])
    /\ UNCHANGED <<noise_calls, encoder_calls, reducer_calls, Outside>>

\* Image.fromarray(a, 'RGB'): the size is the shape of the array.
FromArray(px) == Rgb(Len(px[1]), Len(px), px)

\* quantized = np.floor(dithered).astype(np.uint8); Image.fromarray
TruncateTo8Bit ==
    /\ pc = "Truncate"
    /\ \E v \in (IF cv.arr.nan THEN NanCast ELSE {0}) :
          Run("Truncate", [cv EXCEPT !.result_img = FromArray(Truncate(cv.arr, v))])
    /\ UNCHANGED <<noise_calls, encoder_calls, reducer_calls, Outside>>

\* if palette_mode == 'system': quantize to WINDOWS_SYSTEM_PALETTE
PaletteQuantize ==
    /\ pc = "PaletteQuantize"
    /\ Run("PaletteQuantize",
           [cv EXCEPT !.result_img.px = QuantizeToPalette(@, WINDOWS_SYSTEM_PALETTE)])
    /\ UNCHANGED <<noise_calls, encoder_calls, reducer_calls, Outside>>

\* ign_converter.py:170-172, the else branch: the median cut reducer.
MedianCutReduce ==
    /\ pc = "MedianCut"
    /\ Run("MedianCut", [cv EXCEPT !.result_img.px = MedianCut(@, MedianCutColors)])
    /\ reducer_calls' = reducer_calls + 1
    /\ UNCHANGED <<noise_calls, encoder_calls, Outside>>

\* The second pass without the palette quantization that follows it.
SecondPassNoRequantize(c, pal, noise_2) ==
    Truncate(DitherArr(Arr(ToFloat(c.result_img.px)), noise_2, SecondStrength(c.strength)), 0)

\* The pixels after the second pass (image_converter.py:157-177) for the
\* noise field noise_2.
SecondPassPixels(c, pal, noise_2) ==
    LET img_array_2 == Arr(ToFloat(c.result_img.px))
        dithered_2 == DitherArr(img_array_2, noise_2, SecondStrength(c.strength))
        quantized_2 == Truncate(dithered_2, 0)
    IN  IF c.palette_mode = "system" THEN QuantizeToPalette(quantized_2, pal)
        ELSE quantized_2

\* The second pass with the seed of the first: noise_scale * 2, seed.
SecondPassFirstSeed ==
    /\ pc = "SecondPass"
    /\ \E o \in generate_ign_noise(cv.img.w, cv.img.h, cv.noise_scale * 2, cv.seed) :
          /\ Run("SecondPass",
                 [cv EXCEPT !.result_img =
                     FromArray(SecondPassPixels(cv, WINDOWS_SYSTEM_PALETTE, o.noise))])
          /\ noise_calls' = Append(noise_calls,
                NoiseCall(cv.img.w, cv.img.h, cv.noise_scale * 2, cv.seed, o.drawn))
    /\ UNCHANGED <<encoder_calls, reducer_calls, Outside>>

\* if twopass: ...
SecondPass ==
    /\ pc = "SecondPass"
    /\ \E o \in generate_ign_noise(cv.img.w, cv.img.h, cv.noise_scale * 2, cv.seed + 100) :
          /\ Run("SecondPass",
                 [cv EXCEPT !.result_img =
                     FromArray(SecondPassPixels(cv, WINDOWS_SYSTEM_PALETTE, o.noise))])
          /\ noise_calls' = Append(noise_calls,
                NoiseCall(cv.img.w, cv.img.h, cv.noise_scale * 2, cv.seed + 100, o.drawn))
    /\ UNCHANGED <<encoder_calls, reducer_calls, Outside>>

\* if blur_radius > 0: result_img = result_img.filter(GaussianBlur(...))
PostBlur ==
    /\ pc = "PostBlur"
    /\ Run("PostBlur", [cv EXCEPT !.result_img = GaussianBlur(cv.result_img)])
    /\ UNCHANGED <<noise_calls, encoder_calls, reducer_calls, Outside>>

\* Whether the name Path is bound in the module of convert_image:
\* ign_converter.py:6 imports it, image_converter.py:1-11 does not.
PathImported(im) == im = "standalone"

\* if use_hash: md5 of result_img.tobytes(); Path(output_path) / f"{md5}.png"
NameByHash ==
    /\ pc = "NameByHash"
    /\ IF PathImported(impl)
       THEN Run("NameByHash",
                [cv EXCEPT !.final_output =
                    JoinPath(cv.output_path, Md5Name(ToBytes(cv.result_img.px)))])
       ELSE Caught("NameByHash")
    /\ UNCHANGED <<noise_calls, encoder_calls, reducer_calls, Outside>>

\* else: final_output = output_path
FinalOutput(c) == IF c.use_hash THEN c.final_output ELSE c.output_path

\* open(path, "w+b") succeeds for a file name in an existing directory.
CanWrite(p, made) == p.file # NoName /\ p.dir \in Dirs \cup made

\* result_img.save(final_output, 'PNG', optimize=True); return True, final_output
Encode ==
    /\ pc = "Encode"
    /\ LET final == FinalOutput(cv)
           ok == CanWrite(final, created)
       IN  /\ encoder_calls' = Append(encoder_calls,
                                       [input |-> cv.input_path, path |-> final,
                                        px |-> cv.result_img.px, ok |-> ok])
           /\ IF ok
              THEN /\ trace' = Append(trace, "Encode")
                   /\ cv' = [cv EXCEPT !.final_output = final]
                   /\ pc' = cv.caller
                   /\ ret' = [success |-> TRUE, final_output |-> final]
                   /\ UNCHANGED <<failed_at, reported>>
              ELSE Caught("Encode")
    /\ UNCHANGED <<noise_calls, reducer_calls, Outside>>

(***************************************************************************)
(* The entry points: process_single_image and process_directory of         *)
(* processing.py and of ign_converter.py, and main of ign_converter.py.    *)
(***************************************************************************)
\* What an entry point returned ("return": ok; "exit": code) or raised.
Returned(ok) == [kind |-> "return", ok |-> ok, code |-> 0, error |-> ""]

Exited(code) == [kind |-> "exit", ok |-> code = 0, code |-> code, error |-> ""]

Raised(error) == [kind |-> "raise", ok |-> FALSE, code |-> 1, error |-> error]

NoResult == [kind |-> "none", ok |-> FALSE, code |-> 0, error |-> ""]

\* process_* return success to their caller; main turns it into the exit
\* code (ign_converter.py:445: return 0 if success else 1).
Outcome(fn, success) == IF fn = "main" THEN Exited(IF success THEN 0 ELSE 1) ELSE Returned(success)

NoPd == [image_files |-> <<>>, i |-> 0, success_count |-> 0, fail_count |-> 0]

\* The entry point ends with `success` after printing msg (if any), before
\* any call of convert_image.
Finish(fn, success, msg) ==
    /\ pc' = "done"
    /\ result' = Outcome(fn, success)
    /\ reported' = IF msg = "" THEN reported ELSE Append(reported, msg)
    /\ UNCHANGED <<cv, trace, failed_at, ret, pd, created>>

\* A call of convert_image with the frame c.
Enter(c) ==
    /\ cv' = c
    /\ pc' = FirstOn(c, Stages(impl'), 1)
    /\ trace' = <<>>
    /\ failed_at' = ""
    /\ ret' = NoRet

\* mkdir(parents=True, exist_ok=True) of the directory path p.
Mkdir(p, made) == IF p.dir \in Dirs THEN made ELSE made \cup {p.dir}

\* processing.py:18-29, ign_converter.py:218-229: the path handed to
\* convert_image.
SingleOutputPath(a) ==
    IF a.cfg.use_hash
    THEN (IF a.output # NonePath THEN a.output ELSE Parent(a.input_file))
    ELSE (IF a.output # NonePath THEN JoinPath(a.output, IgnpyName(a.input_file))
          ELSE JoinPath(Parent(a.input_file), IgnpyName(a.input_file)))

\* The directories process_single_image makes: with use_hash the output
\* directory, without it the -o directory when one is given.
SingleMkdir(a, made) ==
    IF a.cfg.use_hash \/ a.output # NonePath
    THEN Mkdir(IF a.output # NonePath THEN a.output ELSE Parent(a.input_file), made)
    ELSE made

\* The call of convert_image each process_single_image makes.
SingleCall(im, a) ==
    IF im = "modular"
    THEN CallModular("psi_return", a.input_file, SingleOutputPath(a), a.cfg)
    ELSE CallStandaloneSingle("psi_return", a.input_file, SingleOutputPath(a), a.cfg)

\* process_single_image up to its call of convert_image.
PsiEnter(a) ==
    IF ~Exists(a.input_file, created)
    THEN Finish(a.fn, FALSE, "Input file not found")
    ELSE IF ~IsFile(a.input_file)
    THEN Finish(a.fn, FALSE, "Input path is not a file")
    ELSE /\ created' = SingleMkdir(a, created)
         /\ Enter(SingleCall(impl', a))
         /\ UNCHANGED <<pd, result, reported>>

\* Whether the name SUPPORTED_EXTENSIONS is bound in the module of
\* process_directory: ign_converter.py:17 binds it, processing.py:1-2 does
\* not (image_converter.py:14 binds it in another module).
ExtensionsBound(im) == im = "standalone"

\* The call of convert_image for the file f of a batch: output_path is the
\* output directory (processing.py:86-87, ign_converter.py:281).
BatchCall(im, a, f) ==
    IF im = "modular" THEN CallModular("pd_after", f, a.output, a.cfg)
    ELSE CallStandaloneBatch("pd_after", f, a.output, a.cfg)

\* process_directory up to the first call of convert_image; ignoreCase is
\* whether glob on this file system ignores the case of names.
PdEnter(a, ignoreCase) ==
    IF ~Exists(a.input_dir, created)
    THEN Finish(a.fn, FALSE, "Input directory not found")
    ELSE IF ~IsDir(a.input_dir, created)
    THEN Finish(a.fn, FALSE, "Input path is not a directory")
    ELSE IF a.output = NonePath
    THEN Finish(a.fn, FALSE, "Output directory (-o) is required for batch conversion")
    ELSE IF ~ExtensionsBound(impl')
    THEN /\ created' = Mkdir(a.output, created)
         /\ pc' = "done"
         /\ result' = Raised("NameError")
         /\ UNCHANGED <<cv, trace, failed_at, ret, pd, reported>>
    ELSE LET image_files == Sorted(Glob(a.input_dir.dir, ignoreCase))
         IN  IF image_files = <<>>
             THEN /\ created' = Mkdir(a.output, created)
                  /\ pc' = "done"
                  /\ result' = Outcome(a.fn, FALSE)
                  /\ reported' = Append(reported, "No supported images found")
                  /\ UNCHANGED <<cv, trace, failed_at, ret, pd>>
             ELSE /\ created' = Mkdir(a.output, created)
                  /\ pd' = [image_files |-> image_files, i |-> 1,
                            success_count |-> 0, fail_count |-> 0]
                  /\ Enter(BatchCall(impl', a, image_files[1]))
                  /\ UNCHANGED <<result, reported>>

\* What the entry points leave alone.
Logs == <<WINDOWS_SYSTEM_PALETTE, encoder_calls, noise_calls, reducer_calls, testVars>>

\* A call of processing.process_single_image.
ProcessSingleImage ==
    /\ pc = "idle"
    /\ \E a \in SingleArgs :
          /\ impl' = "modular"
          /\ args' = a
          /\ PsiEnter(a)
    /\ UNCHANGED Logs

\* A call of processing.process_directory.
ProcessDirectory ==
    /\ pc = "idle"
    /\ \E a \in BatchArgs, ignoreCase \in BOOLEAN :
          /\ impl' = "modular"
          /\ args' = a
          /\ PdEnter(a, ignoreCase)
    /\ UNCHANGED Logs

\* The checks without the lower bound of the strength.
UsageErrorNoLowerBound(a) ==
    IF a.cfg.strength.num > a.cfg.strength.den
    THEN "Strength must be between 0.0 and 1.0"
    ELSE IF a.cfg.blur_radius < 0 \/ a.cfg.blur_radius > 16
    THEN "Blur radius must be between 0.0 and 16.0"
    ELSE IF a.input_file # NonePath /\ a.input_dir # NonePath
    THEN "Cannot specify both input file and -d directory"
    ELSE IF a.input_file = NonePath /\ a.input_dir = NonePath
    THEN "Must specify either an input file or -d directory"
    ELSE ""

\* ign_converter.py:408-425: the message of the first check that fails, or "".
UsageError(a) ==
    IF a.cfg.strength.num < 0 \/ a.cfg.strength.num > a.cfg.strength.den
    THEN "Strength must be between 0.0 and 1.0"
    ELSE IF a.cfg.blur_radius < 0 \/ a.cfg.blur_radius > 16
    THEN "Blur radius must be between 0.0 and 16.0"
    ELSE IF a.input_file # NonePath /\ a.input_dir # NonePath
    THEN "Cannot specify both input file and -d directory"
    ELSE IF a.input_file = NonePath /\ a.input_dir = NonePath
    THEN "Must specify either an input file or -d directory"
    ELSE ""

\* A run of ign_converter.py: main up to the first call of convert_image.
Main ==
    /\ pc = "idle"
    /\ \E a \in MainArgs, ignoreCase \in BOOLEAN :
          /\ impl' = "standalone"
          /\ args' = a
          /\ IF UsageError(a) # ""
             THEN Finish("main", FALSE, UsageError(a))
             ELSE IF a.input_file # NonePath
             THEN (IF ~Exists(a.input_file, created)
                   THEN Finish("main", FALSE, "Input file not found")
                   ELSE PsiEnter(a))
             ELSE (IF ~Exists(a.input_dir, created)
                   THEN Finish("main", FALSE, "Input directory not found")
                   ELSE IF ~IsDir(a.input_dir, created)
                   THEN Finish("main", FALSE, "Path is not a directory")
                   ELSE PdEnter(a, ignoreCase))
    /\ UNCHANGED Logs

\* convert_image has returned to process_single_image: return success.
ProcessSingleImageReturn ==
    /\ pc = "psi_return"
    /\ pc' = "done"
    /\ result' = Outcome(args.fn, ret.success)
    /\ UNCHANGED <<impl, args, cv, trace, failed_at, ret, pd, created, reported, Logs>>

\* convert_image has returned to the loop of process_directory: count, then
\* the next file, or return fail_count == 0 after the last.
ProcessDirectoryNext ==
    /\ pc = "pd_after"
    /\ UNCHANGED <<impl, args, created, reported, Logs>>
    /\ LET counted == [pd EXCEPT
                          !.success_count = IF ret.success THEN @ + 1 ELSE @,
                          !.fail_count = IF ret.success THEN @ ELSE @ + 1]
       IN  IF pd.i < Len(pd.image_files)
           THEN /\ pd' = [counted EXCEPT !.i = @ + 1]
                /\ Enter(BatchCall(impl, args, pd.image_files[pd.i + 1]))
                /\ UNCHANGED result
           ELSE /\ pd' = counted
                /\ pc' = "done"
                /\ result' = Outcome(args.fn, counted.fail_count = 0)
                /\ UNCHANGED <<cv, trace, failed_at, ret>>

Init ==
    /\ WINDOWS_SYSTEM_PALETTE = BuildSystemPalette
    /\ pc = "idle"
    /\ impl = ""
    /\ args = NoArgs
    /\ cv = NoFrame
    /\ trace = <<>>
    /\ failed_at = ""
    /\ ret = NoRet
    /\ pd = NoPd
    /\ result = NoResult
    /\ created = {}
    /\ encoder_calls = <<>>
    /\ reported = <<>>
    /\ noise_calls = <<>>
    /\ reducer_calls = 0
    /\ t_pc = "idle"
    /\ t_in = <<>>
    /\ t_mem = <<>>
    /\ t_out = <<>>

Next ==
    \/ ProcessSingleImage
    \/ ProcessDirectory
    \/ Main
    \/ Load
    \/ PreBlur
    \/ ColorspaceConvert
    \/ Normalize
    \/ GenerateNoise
    \/ Dither
    \/ ConvertBack
    \/ TruncateTo8Bit
    \/ PaletteQuantize
    \/ MedianCutReduce
    \/ SecondPass
    \/ PostBlur
    \/ NameByHash
    \/ Encode
    \/ ProcessSingleImageReturn
    \/ ProcessDirectoryNext

Spec == Init /\ [][Next]_vars

(***************************************************************************)
(* generate_ign_noise on its own: one call, and a second call with the     *)
(* same arguments when the seed is fixed.                                  *)
(***************************************************************************)
MaxWidth == 2

MaxHeight == 2

NoiseScales == {1, 2, 3, 16}

NoiseSeeds == {0 - 1, 0, 1, 7, 999, 1000}

NoiseArgs(width, height, scale, seed) ==
    [width |-> width, height |-> height, scale |-> scale, seed |-> seed]

NoiseFirstCall ==
    /\ t_pc = "idle"
    /\ \E width \in 1..MaxWidth, height \in 1..MaxHeight, scale \in NoiseScales,
          seed \in NoiseSeeds :
          /\ t_in' = NoiseArgs(width, height, scale, seed)
          /\ \E o \in generate_ign_noise(width, height, scale, seed) : t_out' = <<o>>
    /\ t_pc' = "once"
    /\ UNCHANGED <<WINDOWS_SYSTEM_PALETTE, progVars, t_mem>>

NoiseSecondCall ==
    /\ t_pc = "once"
    /\ t_in.seed # 0 - 1
    /\ \E o \in generate_ign_noise(t_in.width, t_in.height, t_in.scale, t_in.seed) :
          t_out' = Append(t_out, o)
    /\ t_pc' = "twice"
    /\ UNCHANGED <<WINDOWS_SYSTEM_PALETTE, progVars, t_in, t_mem>>

NoiseNext == NoiseFirstCall \/ NoiseSecondCall

SpecNoise == Init /\ [][NoiseNext]_vars

(***************************************************************************)
(* rgb_to_lab followed by lab_to_rgb on a one-pixel array.  A call is      *)
(* given a reference to the array: t_mem is the caller's array, t_out the  *)
(* array returned.                                                         *)
(***************************************************************************)
ChannelStep == 32

ChannelLevels == {k * ChannelStep : k \in 0..(255 \div ChannelStep)} \cup {1, 254, 255}

\* colorspace_conversion.py:21: rgb = rgb / 255.0 binds the local name to a
\* new array; lines 25-26 and 39-46 write into arrays made by the function.
RgbToLabCall(mem) == [arg |-> mem, returned |-> rgb_to_lab(mem)]

\* colorspace_conversion.py:67-71: fx, fy, fz and np.stack are new arrays;
\* lines 74-80 and 93-94 write into arrays made by the function.
LabToRgbCall(mem) == [arg |-> mem, returned |-> lab_to_rgb(mem)]

LabFirstCall ==
    /\ t_pc = "idle"
    /\ \E r \in ChannelLevels, g \in ChannelLevels, b \in ChannelLevels :
          LET rgb == Arr(ToFloat(<< << <<r, g, b>> >> >>))
              call == RgbToLabCall(rgb)
          IN  /\ t_in' = rgb
              /\ t_mem' = call.arg
              /\ t_out' = call.returned
    /\ t_pc' = "lab"
    /\ UNCHANGED <<WINDOWS_SYSTEM_PALETTE, progVars>>

LabSecondCall ==
    /\ t_pc = "lab"
    /\ LET call == LabToRgbCall(t_out)
       IN  /\ t_in' = [rgb |-> t_in, lab |-> t_out]
           /\ t_mem' = call.arg
           /\ t_out' = call.returned
    /\ t_pc' = "rgb"
    /\ UNCHANGED <<WINDOWS_SYSTEM_PALETTE, progVars>>

LabNext == LabFirstCall \/ LabSecondCall

SpecLab == Init /\ [][LabNext]_vars

(***************************************************************************)
(* The properties.                                                         *)
(***************************************************************************)
Range(sq) == {sq[i] : i \in DOMAIN sq}

\* convert_image has returned to its caller.
ConversionReturned == pc \in {"psi_return", "pd_after"}

\* The directory an output file is expected in: -o when given, else the
\* directory of the input file.
ExpectedDir(input) == IF args.output # NonePath THEN args.output ELSE Parent(input)

\* The order of the stages and the flag of each conditional stage.
ClaimedOrder ==
    <<"Load", "PreBlur", "ColorspaceConvert", "Normalize", "GenerateNoise", "Dither",
      "ConvertBack", "Truncate", "PaletteQuantize", "SecondPass", "PostBlur",
      "NameByHash", "Encode">>

ClaimedPosition(st) == CHOOSE k \in DOMAIN ClaimedOrder : ClaimedOrder[k] = st

ClaimedFlag(c, st) ==
    CASE st = "PreBlur" -> c.preblur > 0
      [] st \in {"ColorspaceConvert", "ConvertBack"} -> c.colorspace = "lab"
      [] st = "Normalize" -> c.normalize
      [] st = "PaletteQuantize" -> c.palette_mode = "system"
      [] st = "SecondPass" -> c.twopass
      [] st = "PostBlur" -> c.blur_radius > 0
      [] st = "NameByHash" -> c.use_hash
      [] OTHER -> TRUE

\* The position in ClaimedOrder of the last stage entered.
Reached == IF trace = <<>> THEN 0 ELSE ClaimedPosition(trace[Len(trace)])

\* C1: one run of image_converter.convert_image enters its stages in the
\* order Load, PreBlur, ColorspaceConvert, Normalize, GenerateNoise, Dither,
\* ConvertBack, Truncate, PaletteQuantize, SecondPass, PostBlur, NameByHash,
\* Encode: no stage twice, none before an earlier one, and up to the stage the
\* run has reached a conditional stage was entered exactly when its flag
\* holds; the stage about to run is the next one whose flag holds, and a call
\* that returns success has reached Encode.
C1_StageOrder ==
    impl = "modular" =>
        /\ \A i \in DOMAIN trace : trace[i] \in Range(ClaimedOrder)
        /\ \A i, j \in DOMAIN trace :
              i < j => ClaimedPosition(trace[i]) < ClaimedPosition(trace[j])
        /\ \A k \in 1..Reached :
              (ClaimedOrder[k] \in Range(trace)) <=> ClaimedFlag(cv, ClaimedOrder[k])
        /\ pc \in Range(ClaimedOrder) =>
              /\ ClaimedPosition(pc) > Reached
              /\ ClaimedFlag(cv, pc)
              /\ \A k \in (Reached + 1)..(ClaimedPosition(pc) - 1) :
                    ~ClaimedFlag(cv, ClaimedOrder[k])
        /\ (ConversionReturned /\ ret.success) => Reached = Len(ClaimedOrder)

\* A successful run with every conditional stage but NameByHash.
C1_Witness ==
    /\ impl = "modular"
    /\ pc = "psi_return"
    /\ ret.success
    /\ Len(trace) = Len(ClaimedOrder) - 1

\* The supported image files of a directory.
Found(dir) == {f \in Files : f.dir = dir /\ f.file.suffix \in SUPPORTED_EXTENSIONS}

\* The run calls process_directory.
CallsProcessDirectory ==
    \/ args.fn = "process_directory"
    \/ args.fn = "main" /\ UsageError(args) = "" /\ args.input_dir # NonePath

\* C2: for an input directory with at least one supported image file and a
\* given output directory, process_directory attempts every found file
\* exactly once in sorted order, success_count + fail_count is the number of
\* files found, it returns success exactly when fail_count = 0, and the
\* directory with 2 valid images and 1 corrupted file gives 2, 1 and failure.
C2_BatchCounts ==
    (/\ CallsProcessDirectory
     /\ IsDir(args.input_dir, {})
     /\ Found(args.input_dir.dir) # {}
     /\ args.output # NonePath
     /\ pc = "done") =>
        /\ result.kind # "raise"
        /\ pd.image_files = Sorted(SetToSeq(Found(args.input_dir.dir)))
        /\ pd.i = Len(pd.image_files)
        /\ pd.success_count + pd.fail_count = Cardinality(Found(args.input_dir.dir))
        /\ result.ok <=> pd.fail_count = 0
        /\ args.input_dir = DirPath("in") =>
              pd.success_count = 2 /\ pd.fail_count = 1 /\ ~result.ok

\* C3: without the hash-naming flag every path handed to the encoder is a
\* file path, never the output directory, and every successful conversion
\* of F writes <dir>/<stem of F>_ignpy.png, <dir> being the -o directory when
\* given and the directory of F otherwise.
C3_OutputPath ==
    ~args.cfg.use_hash =>
        \A k \in DOMAIN encoder_calls :
            LET e == encoder_calls[k]
            IN  /\ e.path.file # NoName
                /\ e.ok => e.path = JoinPath(ExpectedDir(e.input), IgnpyName(e.input))

\* C4: with the hash-naming flag, a conversion by image_converter.py of an
\* image that decodes does not fail in NameByHash, reaches Encode and returns
\* success with the path <dir>/<md5 of the final pixel bytes>.png.
C4_HashNaming ==
    (/\ impl = "modular"
     /\ args.cfg.use_hash
     /\ pc = "psi_return"
     /\ failed_at # "Load") =>
        /\ failed_at # "NameByHash"
        /\ "Encode" \in Range(trace)
        /\ ret.success
        /\ ret.final_output =
              JoinPath(ExpectedDir(args.input_file), Md5Name(ToBytes(cv.result_img.px)))

\* C5: WINDOWS_SYSTEM_PALETTE always has 256 entries, entry 0 = (0,0,0),
\* entry 255 = (255,255,255), entry 10 + 36r + 6g + b = (51r, 51g, 51b) for
\* r, g, b in 0..5, and entry 226 + i = (g, g, g) with g = floor(8 + i*240/19)
\* for i in 0..19 (Python index n is position n + 1).
C5_SystemPalette ==
    /\ Len(WINDOWS_SYSTEM_PALETTE) = 256
    /\ WINDOWS_SYSTEM_PALETTE[0 + 1] = <<0, 0, 0>>
    /\ WINDOWS_SYSTEM_PALETTE[255 + 1] = <<255, 255, 255>>
    /\ \A r, g, b \in 0..5 :
          WINDOWS_SYSTEM_PALETTE[10 + 36 * r + 6 * g + b + 1] = <<51 * r, 51 * g, 51 * b>>
    /\ \A i \in 0..19 :
          LET g == (8 * 19 + i * 240) \div 19
          IN  WINDOWS_SYSTEM_PALETTE[226 + i + 1] = <<g, g, g>>

\* A run has mapped an image to the palette twice and returned.
C5_Witness ==
    /\ pc = "done"
    /\ impl = "modular"
    /\ ret.success
    /\ {"PaletteQuantize", "SecondPass"} \subseteq Range(trace)

\* np.floor(a).astype(np.uint8), per channel.
FloorPixels(a) == MapPixels(LAMBDA p : <<p[1] \div FP, p[2] \div FP, p[3] \div FP>>, a)

\* C6 as stated: in adaptive palette mode no convert_image of the
\* repository invokes the median-cut reducer or a palette mapping.
C6_NoReducerAnywhere ==
    cv.palette_mode = "adaptive" =>
        /\ reducer_calls = 0
        /\ Range(trace) \cap {"PaletteQuantize", "MedianCut"} = {}

\* C6 amended: in adaptive palette mode image_converter.convert_image
\* invokes neither the median-cut reducer nor a palette mapping, and before
\* a second pass or blur its image is the per-channel floor of the dithered
\* values.
C6_ModularNoReducer ==
    (impl = "modular" /\ cv.palette_mode = "adaptive") =>
        /\ reducer_calls = 0
        /\ Range(trace) \cap {"PaletteQuantize", "MedianCut"} = {}
        /\ (/\ "Truncate" \in Range(trace)
            /\ Range(trace) \cap {"SecondPass", "PostBlur"} = {}
            /\ ~cv.arr.nan) => cv.result_img.px = FloorPixels(cv.arr.a)

\* An adaptive conversion with dither that was encoded.
C6_Witness ==
    /\ impl = "modular"
    /\ cv.palette_mode = "adaptive"
    /\ cv.strength = S10
    /\ pc = "psi_return"
    /\ ret.success
    /\ Range(trace) \cap {"SecondPass", "PostBlur"} = {}

\* strength = 0, no blur, no normalisation, adaptive palette, RGB.
ZeroStrengthPlain(c) ==
    /\ c.strength.num = 0
    /\ c.preblur = 0
    /\ c.blur_radius = 0
    /\ ~c.normalize
    /\ c.palette_mode = "adaptive"
    /\ c.colorspace = "rgb"

\* C7: with strength 0, no blur, no normalisation, adaptive palette and RGB,
\* the pixels image_converter.convert_image hands to the encoder are the
\* decoded input pixels, for every noise scale and seed, with and without
\* the second pass.
C7_ZeroStrengthIdentity ==
    (impl = "modular" /\ ZeroStrengthPlain(cv)) =>
        \A k \in DOMAIN encoder_calls :
            encoder_calls[k].px = Decode(Content(encoder_calls[k].input)).px

C7_Witness ==
    /\ impl = "modular"
    /\ ZeroStrengthPlain(cv)
    /\ cv.twopass
    /\ cv.noise_scale = 3
    /\ cv.seed = 42
    /\ Len(encoder_calls) = 1

Rounded(v) == (v + FP \div 2) \div FP

\* C9: lab_to_rgb(rgb_to_lab(p)) is p within 1 per channel after rounding,
\* and neither function changes the array it is given.
C9_LabRoundTrip ==
    /\ t_pc = "lab" => t_mem = t_in
    /\ t_pc = "rgb" =>
          /\ t_mem = t_in.lab
          /\ \A i \in 1..3 :
                Abs(Rounded(t_out.a[1][1][i]) * FP - t_in.rgb.a[1][1][i]) <= 1 * FP

C9_Witness ==
    /\ t_pc = "rgb"
    /\ t_in.rgb = Arr(ToFloat(<< << <<1, 254, 2 * ChannelStep>> >> >>))

\* The usage and configuration errors.
ClaimedUsageError(a) ==
    \/ /\ a.fn = "main"
       /\ \/ a.cfg.strength.num < 0
          \/ a.cfg.strength.num > a.cfg.strength.den
          \/ a.cfg.blur_radius < 0
          \/ a.cfg.blur_radius > 16
          \/ a.input_file # NonePath /\ a.input_dir # NonePath
          \/ a.input_file = NonePath /\ a.input_dir = NonePath
    \/ /\ a.fn \in {"main", "process_directory"}
       /\ a.input_file = NonePath
       /\ a.input_dir # NonePath
       /\ a.output = NonePath

\* C10: a usage or configuration error is reported and ends the run with
\* exit code 1 from main, False from process_directory, with no conversion
\* attempted and no directory or file created.
C10_UsageErrors ==
    (impl # "" /\ ClaimedUsageError(args)) =>
        /\ pc = "done"
        /\ reported # <<>>
        /\ IF args.fn = "main"
           THEN result.kind = "exit" /\ result.code = 1
           ELSE result.kind = "return" /\ ~result.ok
        /\ cv = NoFrame
        /\ trace = <<>>
        /\ encoder_calls = <<>>
        /\ noise_calls = <<>>
        /\ created = {}

\* Batch mode without -o, started from the command line.
C10_Witness ==
    /\ args.fn = "main"
    /\ args.input_dir = DirPath("in")
    /\ args.output = NonePath
    /\ args.cfg.strength = S10
    /\ args.cfg.blur_radius = 16
    /\ pc = "done"
    /\ result.code = 1

\* The configuration values of a frame that the entry point of the running
\* program has: ign_converter.py has no preblur, seed, twopass or colorspace.
SameConfig(c, given, im) ==
    /\ c.noise_scale = given.noise_scale
    /\ c.strength = given.strength
    /\ c.blur_radius = given.blur_radius
    /\ c.palette_mode = given.palette_mode
    /\ c.normalize = given.normalize
    /\ c.use_hash = given.use_hash
    /\ im = "modular" =>
          /\ c.preblur = given.preblur
          /\ c.seed = given.seed
          /\ c.twopass = given.twopass
          /\ c.colorspace = given.colorspace

\* C11: every configuration value given to process_single_image or
\* process_directory is the value of the parameter of the same meaning in
\* every call of convert_image of the run; in particular normalize and
\* use_hash in convert_image are the ones the caller supplied.
C11_ArgumentBinding ==
    cv.caller # "" => SameConfig(cv, args.cfg, impl)

\* C12: a stage of convert_image that fails ends the call: the failing stage
\* is the last one entered, control is back in the caller (no later stage
\* runs for that image), the error was printed, the call returned
\* (False, None), and the entry point did not end with an exception.
C12_FailureContained ==
    failed_at # "" =>
        /\ pc \in {"psi_return", "pd_after", "done"}
        /\ trace # <<>>
        /\ trace[Len(trace)] = failed_at
        /\ ~ret.success
        /\ ret.final_output = NonePath
        /\ "Error converting" \in Range(reported)
        /\ result.kind # "raise"

\* The second file of a batch failed to decode after the first was written,
\* and the loop is about to go on.
C12_Witness ==
    /\ failed_at = "Load"
    /\ pc = "pd_after"
    /\ pd.i = 2
    /\ pd.i < Len(pd.image_files)
    /\ Len(encoder_calls) = 1
    /\ encoder_calls[1].ok

\* How often stage st was entered in the running conversion.
Entered(st) == Cardinality({i \in DOMAIN trace : trace[i] = st})

\* The second pass as the claim states it, on the pixels px of a w x h image:
\* noise of scale 2 * scale and seed + 100, dither of strength 0.3 * s, floor.
ClaimedSecondPass(px, w, h, scale, seed, s) ==
    FloorPixels(DitherArr(Arr(ToFloat(px)), IgnField(w, h, 2 * scale, seed + 100),
                          Strength(3 * s.num, 10 * s.den)).a)

\* The pixels the claim expects at the encoder for the dithered array a.
ClaimedSystemOutput(c, a, pal) ==
    LET first == QuantizeToPalette(FloorPixels(a), pal)
    IN  IF c.twopass
        THEN QuantizeToPalette(
                 ClaimedSecondPass(first, c.img.w, c.img.h, c.noise_scale, c.seed, c.strength),
                 pal)
        ELSE first

\* C13: in system palette mode with blur_radius = 0 every pixel handed to the
\* encoder is an entry of WINDOWS_SYSTEM_PALETTE; with twopass exactly one
\* second pass (noise of scale 2 * noise_scale and seed + 100, strength
\* 0.3 * strength, floor) runs after the first palette quantization and is
\* followed by a requantization, without twopass none runs.
C13_SystemPaletteOutput ==
    (cv.palette_mode = "system" /\ cv.blur_radius = 0) =>
        \A k \in DOMAIN encoder_calls :
            LET e == encoder_calls[k]
            IN  /\ Colours(e.px) \subseteq Range(WINDOWS_SYSTEM_PALETTE)
                /\ impl = "modular" =>
                      /\ Entered("PaletteQuantize") = 1
                      /\ Entered("SecondPass") = (IF cv.twopass THEN 1 ELSE 0)
                      /\ cv.twopass =>
                            /\ IndexOf(trace, "PaletteQuantize") < IndexOf(trace, "SecondPass")
                            /\ Len(noise_calls) = 2
                            /\ noise_calls[2].scale = 2 * cv.noise_scale
                            /\ noise_calls[2].seed = cv.seed + 100
                      /\ ~cv.twopass => Len(noise_calls) = 1
                      /\ ~cv.arr.nan =>
                            e.px = ClaimedSystemOutput(cv, cv.arr.a, WINDOWS_SYSTEM_PALETTE)

\* A two-pass conversion to the system palette was encoded, and its second
\* dither had left the palette before the requantization.
C13_Witness ==
    /\ impl = "modular"
    /\ cv.palette_mode = "system"
    /\ cv.blur_radius = 0
    /\ cv.twopass
    /\ cv.strength = S10
    /\ ~cv.arr.nan
    /\ Len(encoder_calls) = 1
    /\ encoder_calls[1].ok
    /\ LET first == QuantizeToPalette(FloorPixels(cv.arr.a), WINDOWS_SYSTEM_PALETTE)
           second == ClaimedSecondPass(first, cv.img.w, cv.img.h, cv.noise_scale, cv.seed,
                                       cv.strength)
       IN  /\ second # first
           /\ ~(Colours(second) \subseteq Range(WINDOWS_SYSTEM_PALETTE))

\* px has h rows of w elements.
HasShape(px, w, h) == Len(px) = h /\ \A r \in 1..h : Len(px[r]) = w

\* The calls of generate_ign_noise of the running conversion.
RunningNoiseCalls ==
    LET n == Entered("GenerateNoise") + Entered("SecondPass")
    IN  SubSeq(noise_calls, Len(noise_calls) - n + 1, Len(noise_calls))

\* What the dither adds for the noise value v: (v - 0.5) * 2 * s * 255.
NoiseScaled(v, s) == ((2 * v - FP) * 255 * s.num) \div s.den

\* From Load on, every image, array and noise field of a conversion has the
\* width and height of the decoded input.
SameDimensions ==
    (cv.caller # "" /\ "Load" \in Range(trace) /\ failed_at # "Load") =>
        LET w == Decode(Content(cv.input_path)).w
            h == Decode(Content(cv.input_path)).h
        IN  /\ w >= 1
            /\ h >= 1
            /\ cv.img.w = w
            /\ cv.img.h = h
            /\ HasShape(cv.img.px, w, h)
            /\ HasShape(cv.arr.a, w, h)
            /\ \A r \in 1..h, c \in 1..w : Len(cv.arr.a[r][c]) = 3
            /\ cv.noise # <<>> => HasShape(cv.noise, w, h)
            /\ cv.result_img # NoRgb =>
                  /\ cv.result_img.w = w
                  /\ cv.result_img.h = h
                  /\ HasShape(cv.result_img.px, w, h)
                  /\ \A r \in 1..h, c \in 1..w : Len(cv.result_img.px[r][c]) = 3
            /\ \A k \in DOMAIN RunningNoiseCalls :
                  RunningNoiseCalls[k].width = w /\ RunningNoiseCalls[k].height = h
            /\ "Encode" \in Range(trace) =>
                  HasShape(encoder_calls[Len(encoder_calls)].px, w, h)

\* The dither adds to the three channels of a pixel the one noise value of
\* that pixel, in the first pass and (floored) in the second.
ElementwiseDither ==
    /\ (pc = "Dither" /\ ~cv.arr.nan) =>
          \A r \in 1..cv.img.h, c \in 1..cv.img.w, i \in 1..3 :
              cv'.arr.a[r][c][i] =
                  Clip255(cv.arr.a[r][c][i] + NoiseScaled(cv.noise[r][c], cv.strength))
    /\ (pc = "SecondPass" /\ cv.palette_mode = "adaptive") =>
          \E o \in generate_ign_noise(cv.img.w, cv.img.h, 2 * cv.noise_scale, cv.seed + 100) :
              /\ HasShape(o.noise, cv.img.w, cv.img.h)
              /\ \A r \in 1..cv.img.h, c \in 1..cv.img.w, i \in 1..3 :
                    cv'.result_img.px[r][c][i] =
                        Clip255(cv.result_img.px[r][c][i] * FP
                                + NoiseScaled(o.noise[r][c], SecondStrength(cv.strength))) \div FP

\* C14: the width and height of the image are the same at every stage of a
\* conversion from Load to Encode, every noise field generated in it (first
\* and second pass) has height rows and width columns, and the noise is added
\* element by element, one noise value for the three channels of a pixel.
C14_Dimensions == []SameDimensions /\ [][ElementwiseDither]_vars

\* A 1 x 2 image went through both blurs, both passes and the encoder.
C14_Witness ==
    /\ impl = "modular"
    /\ cv.input_path = FileC
    /\ cv.strength = S10
    /\ {"PreBlur", "SecondPass", "PostBlur", "Encode"} \subseteq Range(trace)
    /\ Len(noise_calls) = 2
    /\ ret.success

\* C15: for a configured seed in -1..1000 the second call of
\* generate_ign_noise in a conversion gets seed + 100, never -1, and draws
\* nothing; with seed = -1 the first call draws once and the second pass is
\* the one of the fixed seed 99 whatever was drawn; a conversion draws at
\* most once.
C15_SecondPassSeed ==
    (impl = "modular" /\ cv.caller # "" /\ cv.seed \in (0 - 1)..1000) =>
        /\ Len(noise_calls) <= 2
        /\ Len(noise_calls) >= 1 =>
              /\ noise_calls[1].seed = cv.seed
              /\ noise_calls[1].draws = (IF cv.seed = 0 - 1 THEN 1 ELSE 0)
        /\ Len(noise_calls) = 2 =>
              /\ cv.twopass
              /\ noise_calls[2].seed = cv.seed + 100
              /\ noise_calls[2].seed # 0 - 1
              /\ noise_calls[2].draws = 0
              /\ cv.seed = 0 - 1 => noise_calls[2].seed = 99
        /\ (/\ "SecondPass" \in Range(trace)
            /\ cv.palette_mode = "adaptive"
            /\ "PostBlur" \notin Range(trace)
            /\ ~cv.arr.nan) =>
              cv.result_img.px =
                  ClaimedSecondPass(FloorPixels(cv.arr.a), cv.img.w, cv.img.h, cv.noise_scale,
                                    cv.seed, cv.strength)

\* A conversion with seed -1 whose second pass changed the image.
C15_Witness ==
    /\ impl = "modular"
    /\ cv.seed = 0 - 1
    /\ cv.twopass
    /\ pc = "psi_return"
    /\ ret.success
    /\ noise_calls[1].draws = 1
    /\ Len(noise_calls) = 2
    /\ cv.result_img.px # FloorPixels(cv.arr.a)

\* One Normalize step: min and max are taken over all pixels and channels;
\* with max > min every value v becomes (v - min) / (max - min) * 255, the
\* least 0 and the greatest 255; with max = min the quotient is 0 / 0 and the
\* array is NaN.  The step is entered with the flag set, raises nothing and
\* hands over to the next stage.
NormalizeStep ==
    pc = "Normalize" =>
        LET lo == SetMin(Values(cv.arr.a))
            hi == SetMax(Values(cv.arr.a))
        IN  /\ cv.normalize
            /\ ~cv.arr.nan
            /\ trace' = Append(trace, "Normalize")
            /\ failed_at' = ""
            /\ reported' = reported
            /\ pc' \in {"GenerateNoise", "Dither"}
            /\ IF hi > lo
               THEN /\ ~cv'.arr.nan
                    /\ \A r \in 1..cv.img.h, c \in 1..cv.img.w, i \in 1..3 :
                          /\ cv'.arr.a[r][c][i] = MulDiv(cv.arr.a[r][c][i] - lo, 255 * FP, hi - lo)
                          /\ cv'.arr.a[r][c][i] >= 0
                          /\ cv'.arr.a[r][c][i] <= 255 * FP
                    /\ SetMin(Values(cv'.arr.a)) = 0
                    /\ SetMax(Values(cv'.arr.a)) = 255 * FP
               ELSE cv'.arr.nan

\* No conversion fails in Normalize or in a stage that computes with its
\* result.
NormalizeNeverFails ==
    "Normalize" \in Range(trace) => failed_at \in {"", "NameByHash", "Encode"}

\* C16: with the normalize flag set the Normalize stage replaces every value
\* v by (v - min) / (max - min) * 255, min and max over all pixels and
\* channels jointly; for max > min the result has minimum 0, maximum 255 and
\* all values in [0, 255]; for an image of equal values the divisor is 0 and
\* the stage is neither skipped nor a conversion failure.
C16_Normalize == [][NormalizeStep]_vars /\ []NormalizeNeverFails

\* The uniform image was normalised (0 / 0) and its conversion succeeded.
C16_Witness ==
    /\ cv.input_path = FileU
    /\ cv.normalize
    /\ "Normalize" \in Range(trace)
    /\ cv.arr.nan
    /\ ConversionReturned
    /\ ret.success

\* Every value of the array a is a number in [0, 255].
InByteRange(arr) ==
    /\ ~arr.nan
    /\ \A v \in Values(arr.a) : v >= 0 /\ v <= 255 * FP

\* In LAB mode the array handed to lab_to_rgb and the array handed to
\* np.floor(...).astype(np.uint8) hold values in [0, 255] only.
LabValuesInRange ==
    (impl = "modular" /\ cv.colorspace = "lab" /\ pc \in {"ConvertBack", "Truncate"}) =>
        InByteRange(cv.arr)

\* In LAB mode the Dither step leaves L, a and b in [0, 255]; with
\* strength = 0 a value below 0 becomes 0 and the others stay.
LabDitherClamps ==
    (impl = "modular" /\ cv.colorspace = "lab" /\ pc = "Dither") =>
        /\ InByteRange(cv'.arr)
        /\ cv.strength.num = 0 =>
              \A r \in 1..cv.img.h, c \in 1..cv.img.w, i \in 1..3 :
                  cv'.arr.a[r][c][i] =
                      (IF cv.arr.a[r][c][i] < 0 THEN 0
                       ELSE IF cv.arr.a[r][c][i] > 255 * FP THEN 255 * FP
                       ELSE cv.arr.a[r][c][i])

\* C17: in LAB mode every channel value handed to lab_to_rgb lies in
\* [0, 255]: the Dither stage clamps L, a and b alike, so that every a or b
\* below 0 becomes 0 even with strength = 0, and every value floored to 8 bit
\* afterwards lies in [0, 255].
C17_LabClamp == []LabValuesInRange /\ [][LabDitherClamps]_vars

====
